---- MODULE Spec2Model ----
(***************************************************************************)
(* Model of the recognition gateway of main.py: the two identify handlers  *)
(* (identify_by_url, identify_by_file), the outbound call to the provider  *)
(* and the pure normaliser normalize_audd_result.                          *)
(*                                                                         *)
(* JSON values are tagged records so that values of different Python types *)
(* can be compared: null, bool, num, str, list and obj (a dict, held as a  *)
(* function from the keys that are present to their values).               *)
(***************************************************************************)
EXTENDS Integers, Sequences, FiniteSets, TLC

\* ------------------------------------------------------------------ bounds
\* number of requests that may be in flight concurrently
NumRequests == 2

Requests == 1..NumRequests

\* ------------------------------------------------------------- JSON values
Null == [kind |-> "null"]
Str(s) == [kind |-> "str", s |-> s]
List(n) == [kind |-> "list", len |-> n]
Obj(f) == [kind |-> "obj", o |-> f]
EmptyObj == Obj(<<>>)

\* Truthy with the bug of testing `is not None` instead of the truth value
Truthy_is_not_none(v) == v.kind # "null"

\* Python truthiness, as used by `not x` and `x or y`
Truthy(v) ==
  CASE v.kind = "null" -> FALSE
    [] v.kind = "bool" -> v.b
    [] v.kind = "num" -> v.n # 0
    [] v.kind = "str" -> v.s # ""
    [] v.kind = "list" -> v.len > 0
    [] v.kind = "obj" -> DOMAIN v.o # {}

\* the outcome of an attribute lookup that fails (AttributeError: no .get)
Raised == [kind |-> "raise"]

\* dict.get(key): the value, None when the key is missing; only a dict has it
Get(v, key) ==
  IF v.kind # "obj" THEN Raised
  ELSE IF key \in DOMAIN v.o THEN v.o[key] ELSE Null

\* `x or {}`
OrEmpty(v) == IF v = Raised THEN Raised ELSE IF Truthy(v) THEN v ELSE EmptyObj

\* ------------------------------------------------------------ the normaliser
ScalarKeys == {"title", "artist", "album", "release_date", "timecode"}
LinkKeys == {"apple_music", "spotify", "deezer", "audd"}
TopKeys == {"found", "links"} \cup ScalarKeys

\* normalize_audd_result with the bug of leaving out the `or {}` defaults
normalize_audd_result_no_default(result) ==
  LET apple == Get(Get(result, "apple_music"), "url")
      spotify == Get(Get(Get(result, "spotify"), "external_urls"), "spotify")
      deezer == Get(Get(result, "deezer"), "link")
  IN IF Raised \in {Get(result, "title"), apple, spotify, deezer}
     THEN Raised
     ELSE [found |-> TRUE,
           title |-> Get(result, "title"),
           artist |-> Get(result, "artist"),
           album |-> Get(result, "album"),
           release_date |-> Get(result, "release_date"),
           timecode |-> Get(result, "timecode"),
           links |-> [apple_music |-> apple,
                      spotify |-> spotify,
                      deezer |-> deezer,
                      audd |-> Get(result, "song_link")]]

\* normalize_audd_result with the bug of reading spotify.spotify, skipping
\* external_urls
normalize_audd_result_flat_spotify(result) ==
  LET apple == Get(OrEmpty(Get(result, "apple_music")), "url")
      spotify == Get(OrEmpty(Get(result, "spotify")), "spotify")
      deezer == Get(OrEmpty(Get(result, "deezer")), "link")
  IN IF Raised \in {Get(result, "title"), apple, spotify, deezer}
     THEN Raised
     ELSE [found |-> TRUE,
           title |-> Get(result, "title"),
           artist |-> Get(result, "artist"),
           album |-> Get(result, "album"),
           release_date |-> Get(result, "release_date"),
           timecode |-> Get(result, "timecode"),
           links |-> [apple_music |-> apple,
                      spotify |-> spotify,
                      deezer |-> deezer,
                      audd |-> Get(result, "song_link")]]

normalize_audd_result(result) ==
  LET title == Get(result, "title")
      artist == Get(result, "artist")
      album == Get(result, "album")
      release_date == Get(result, "release_date")
      timecode == Get(result, "timecode")
      song_link == Get(result, "song_link")
      apple == Get(OrEmpty(Get(result, "apple_music")), "url")
      spotify == Get(OrEmpty(Get(OrEmpty(Get(result, "spotify")), "external_urls")), "spotify")
      deezer == Get(OrEmpty(Get(result, "deezer")), "link")
  IN IF Raised \in {title, apple, spotify, deezer}
     THEN Raised
     ELSE [found |-> TRUE,
           title |-> title,
           artist |-> artist,
           album |-> album,
           release_date |-> release_date,
           timecode |-> timecode,
           links |-> [apple_music |-> apple,
                      spotify |-> spotify,
                      deezer |-> deezer,
                      audd |-> song_link]]

\* ------------------------------------------------------------- url checking
Whitespace == {" ", "\t", "\n"}

RECURSIVE lstrip(_)
lstrip(s) == IF s # <<>> /\ Head(s) \in Whitespace THEN lstrip(Tail(s)) ELSE s

RECURSIVE rstrip(_)
rstrip(s) ==
  IF s # <<>> /\ s[Len(s)] \in Whitespace THEN rstrip(SubSeq(s, 1, Len(s) - 1)) ELSE s

\* str.strip()
strip(s) == rstrip(lstrip(s))

\* str.startswith(prefix)
startswith(s, prefix) ==
  Len(s) >= Len(prefix) /\ SubSeq(s, 1, Len(prefix)) = prefix

HttpPrefix == <<"h", "t", "t", "p", ":", "/", "/">>
HttpsPrefix == <<"h", "t", "t", "p", "s", ":", "/", "/">>

\* has_http_scheme with the bug of testing for "http" only
has_http_scheme_http_only(url) == startswith(url, <<"h", "t", "t", "p">>)

\* the test of line 74, on the stripped url
has_http_scheme(url) == startswith(url, HttpPrefix) \/ startswith(url, HttpsPrefix)

\* --------------------------------------------------------------- responses
NoBody == <<>>
NoResponse == [status |-> 0, detail |-> "", body |-> NoBody]
HTTPException(status_code, detail) ==
  [status |-> status_code, detail |-> detail, body |-> NoBody]
Ok(body) == [status |-> 200, detail |-> "", body |-> body]
\* an exception that leaves the handler is answered by the framework with 500
Unhandled == [status |-> 500, detail |-> "Internal Server Error", body |-> NoBody]

TokenMissing == "AUDD_API_TOKEN env var is not set on the server"
InvalidUrl == "Please provide a valid URL starting with http(s)://"
ContactFailed == "Failed contacting recognition service: "
ServiceError == "Recognition service error"

\* what a handler hands back: its response and how often it normalised
Return(resp, n) == [response |-> resp, normalize_calls |-> n]

\* identify_by_url_return with the bug of leaving out `if not result`
identify_by_url_return_no_empty_check(reply) ==
  IF reply.kind # "json"
  THEN Return(HTTPException(502, ContactFailed \o reply.text), 0)
  ELSE LET data == reply.data IN
    IF ~Truthy(data) THEN Return(HTTPException(502, ServiceError), 0)
    ELSE IF Get(data, "status") = Raised THEN Return(Unhandled, 0)
    ELSE IF Get(data, "status") # Str("success")
    THEN Return(HTTPException(502, ServiceError), 0)
    ELSE LET n == normalize_audd_result(Get(data, "result")) IN
      IF n = Raised THEN Return(Unhandled, 1) ELSE Return(Ok(n), 1)

\* lines 87-98: from the provider's reply to the response of identify_by_url
identify_by_url_return(reply) ==
  IF reply.kind # "json"
  THEN Return(HTTPException(502, ContactFailed \o reply.text), 0)
  ELSE LET data == reply.data IN
    IF ~Truthy(data) THEN Return(HTTPException(502, ServiceError), 0)
    ELSE IF Get(data, "status") = Raised THEN Return(Unhandled, 0)
    ELSE IF Get(data, "status") # Str("success")
    THEN Return(HTTPException(502, ServiceError), 0)
    ELSE LET result == Get(data, "result") IN
      IF ~Truthy(result) THEN Return(Ok([found |-> FALSE]), 0)
      ELSE LET n == normalize_audd_result(result) IN
        IF n = Raised THEN Return(Unhandled, 1) ELSE Return(Ok(n), 1)

\* identify_by_file_return with the bug of looking at the result before the
\* status
identify_by_file_return_result_first(reply) ==
  IF reply.kind # "json"
  THEN Return(HTTPException(502, ContactFailed \o reply.text), 0)
  ELSE LET data == reply.data IN
    IF ~Truthy(data) THEN Return(HTTPException(502, ServiceError), 0)
    ELSE IF Get(data, "status") = Raised THEN Return(Unhandled, 0)
    ELSE LET result == Get(data, "result") IN
      IF Truthy(result)
      THEN LET n == normalize_audd_result(result) IN
        IF n = Raised THEN Return(Unhandled, 1) ELSE Return(Ok(n), 1)
      ELSE IF Get(data, "status") # Str("success")
      THEN Return(HTTPException(502, ServiceError), 0)
      ELSE Return(Ok([found |-> FALSE]), 0)

\* lines 115-126: the same for identify_by_file
identify_by_file_return(reply) ==
  IF reply.kind # "json"
  THEN Return(HTTPException(502, ContactFailed \o reply.text), 0)
  ELSE LET data == reply.data IN
    IF ~Truthy(data) THEN Return(HTTPException(502, ServiceError), 0)
    ELSE IF Get(data, "status") = Raised THEN Return(Unhandled, 0)
    ELSE IF Get(data, "status") # Str("success")
    THEN Return(HTTPException(502, ServiceError), 0)
    ELSE LET result == Get(data, "result") IN
      IF ~Truthy(result) THEN Return(Ok([found |-> FALSE]), 0)
      ELSE LET n == normalize_audd_result(result) IN
        IF n = Raised THEN Return(Unhandled, 1) ELSE Return(Ok(n), 1)

\* ------------------------------------------------------------ the inputs
\* the credential read from the environment at start-up: unset, empty or set
Tokens == {Null, Str(""), Str("tok")}

\* urls a client may post, as sequences of characters
Urls == {
  <<" ", "h", "t", "t", "p", "s", ":", "/", "/", "a", "\n">>,
  <<"h", "t", "t", "p", ":", "/", "/", "a">>,
  <<"h", "t", "t", "p", ":", "/", "a">>,
  <<" ", "f", "t", "p", ":", "/", "/", "a">>,
  <<>> }

\* provider results used in replies to the handlers
SongT == Obj([title |-> Str("T")])
SongLinks == Obj([apple_music |-> Obj([url |-> Str("A")]),
                  spotify |-> Obj([external_urls |-> Obj([spotify |-> Str("S")])]),
                  deezer |-> Obj([link |-> Str("D")]),
                  song_link |-> Str("L")])

\* parsed bodies the provider may send
Bodies == {
  Null,
  EmptyObj,
  List(1),
  Obj([result |-> SongT]),
  Obj([status |-> Str("error")]),
  Obj([status |-> Str("error"), result |-> SongT]),
  Obj([status |-> Str("success")]),
  Obj([status |-> Str("success"), result |-> Null]),
  Obj([status |-> Str("success"), result |-> EmptyObj]),
  Obj([status |-> Str("success"), result |-> SongT]),
  Obj([status |-> Str("success"), result |-> SongLinks]),
  Obj([status |-> Str("success"), result |-> List(1)]) }

NoReply == [kind |-> "none", text |-> "", data |-> Null]
JsonReply(data) == [kind |-> "json", text |-> "", data |-> data]
\* requests.post raised (connection failure, timeout) or r.json() raised
Failures == {
  [kind |-> "post_raised", text |-> "ConnectionError", data |-> Null],
  [kind |-> "post_raised", text |-> "ReadTimeout", data |-> Null],
  [kind |-> "json_raised", text |-> "Expecting value", data |-> Null] }
Replies == Failures \cup {JsonReply(d) : d \in Bodies}

UrlTimeout == 30
FileTimeout == 60

\* ---------------------------------------------------------------- the state
VARIABLES
  AUDD_API_TOKEN,   \* the process-wide credential (line 17)
  pc,               \* per request: idle, calling, replied, done
  op,               \* per request: none, url, file
  url,              \* per request: payload.url, as posted
  outbound,         \* per request: the calls issued to the provider
  reply,            \* per request: what requests.post / r.json() gave
  response,         \* per request: the response sent to the client
  normalize_calls,  \* per request: calls of normalize_audd_result
  probe,            \* a provider result handed to the normaliser directly
  probe_out         \* what the normaliser and the handlers made of it

vars == <<AUDD_API_TOKEN, pc, op, url, outbound, reply, response,
          normalize_calls, probe, probe_out>>

reqvars == <<pc, op, url, outbound, reply, response, normalize_calls>>

NotRun == [normalized |-> Raised, by_url |-> NoResponse, by_file |-> NoResponse,
           ran |-> FALSE]

InitRequests ==
  /\ pc = [r \in Requests |-> "idle"]
  /\ op = [r \in Requests |-> "none"]
  /\ url = [r \in Requests |-> <<>>]
  /\ outbound = [r \in Requests |-> <<>>]
  /\ reply = [r \in Requests |-> NoReply]
  /\ response = [r \in Requests |-> NoResponse]
  /\ normalize_calls = [r \in Requests |-> 0]

Init ==
  /\ AUDD_API_TOKEN \in Tokens
  /\ InitRequests
  /\ probe = Null
  /\ probe_out = NotRun

\* --------------------------------------------------------------- the actions
Finish(r, ret) ==
  /\ response' = [response EXCEPT ![r] = ret.response]
  /\ normalize_calls' = [normalize_calls EXCEPT ![r] = @ + ret.normalize_calls]
  /\ pc' = [pc EXCEPT ![r] = "done"]

\* lines 69-86: the handler up to its outbound call
identify_by_url(r, payload_url) ==
  /\ pc[r] = "idle"
  /\ op' = [op EXCEPT ![r] = "url"]
  /\ url' = [url EXCEPT ![r] = payload_url]
  /\ IF ~Truthy(AUDD_API_TOKEN)
     THEN /\ Finish(r, Return(HTTPException(400, TokenMissing), 0))
          /\ UNCHANGED outbound
     ELSE IF ~has_http_scheme(strip(payload_url))
     THEN /\ Finish(r, Return(HTTPException(422, InvalidUrl), 0))
          /\ UNCHANGED outbound
     ELSE /\ outbound' = [outbound EXCEPT ![r] =
                 Append(@, [api_token |-> AUDD_API_TOKEN.s,
                            url |-> strip(payload_url),
                            file |-> FALSE,
                            timeout |-> UrlTimeout])]
          /\ pc' = [pc EXCEPT ![r] = "calling"]
          /\ UNCHANGED <<response, normalize_calls>>
  /\ UNCHANGED <<AUDD_API_TOKEN, reply, probe, probe_out>>

\* lines 103-114: the handler up to its outbound call
identify_by_file(r) ==
  /\ pc[r] = "idle"
  /\ op' = [op EXCEPT ![r] = "file"]
  /\ IF ~Truthy(AUDD_API_TOKEN)
     THEN /\ Finish(r, Return(HTTPException(400, TokenMissing), 0))
          /\ UNCHANGED outbound
     ELSE /\ outbound' = [outbound EXCEPT ![r] =
                 Append(@, [api_token |-> AUDD_API_TOKEN.s,
                            url |-> <<>>,
                            file |-> TRUE,
                            timeout |-> FileTimeout])]
          /\ pc' = [pc EXCEPT ![r] = "calling"]
          /\ UNCHANGED <<response, normalize_calls>>
  /\ UNCHANGED <<AUDD_API_TOKEN, url, reply, probe, probe_out>>

\* requests.post and r.json(): the provider answers, fails or times out
provider(r, rep) ==
  /\ pc[r] = "calling"
  /\ reply' = [reply EXCEPT ![r] = rep]
  /\ pc' = [pc EXCEPT ![r] = "replied"]
  /\ UNCHANGED <<AUDD_API_TOKEN, op, url, outbound, response, normalize_calls,
                 probe, probe_out>>

\* identify_by_url_resume with the bug of retrying a failed call once
identify_by_url_resume_retry(r) ==
  /\ pc[r] = "replied"
  /\ op[r] = "url"
  /\ IF reply[r].kind = "post_raised" /\ Len(outbound[r]) < 2
     THEN /\ outbound' = [outbound EXCEPT ![r] = Append(@, @[1])]
          /\ pc' = [pc EXCEPT ![r] = "calling"]
          /\ UNCHANGED <<response, normalize_calls>>
     ELSE /\ Finish(r, identify_by_url_return(reply[r]))
          /\ UNCHANGED outbound
  /\ UNCHANGED <<AUDD_API_TOKEN, op, url, reply, probe, probe_out>>

\* lines 87-98: the handler from the reply to its response
identify_by_url_resume(r) ==
  /\ pc[r] = "replied"
  /\ op[r] = "url"
  /\ Finish(r, identify_by_url_return(reply[r]))
  /\ UNCHANGED <<AUDD_API_TOKEN, op, url, outbound, reply, probe, probe_out>>

\* identify_by_file_resume with the bug of dropping the shared credential when
\* the provider call failed
identify_by_file_resume_drop_token(r) ==
  /\ pc[r] = "replied"
  /\ op[r] = "file"
  /\ Finish(r, identify_by_file_return(reply[r]))
  /\ AUDD_API_TOKEN' = IF reply[r].kind = "json" THEN AUDD_API_TOKEN ELSE Null
  /\ UNCHANGED <<op, url, outbound, reply, probe, probe_out>>

\* lines 115-126: the handler from the reply to its response
identify_by_file_resume(r) ==
  /\ pc[r] = "replied"
  /\ op[r] = "file"
  /\ Finish(r, identify_by_file_return(reply[r]))
  /\ UNCHANGED <<AUDD_API_TOKEN, op, url, outbound, reply, probe, probe_out>>

Next ==
  \/ \E r \in Requests, u \in Urls : identify_by_url(r, u)
  \/ \E r \in Requests : identify_by_file(r)
  \/ \E r \in Requests, rep \in Replies : provider(r, rep)
  \/ \E r \in Requests : identify_by_url_resume(r)
  \/ \E r \in Requests : identify_by_file_resume(r)

Spec == Init /\ [][Next]_vars

\* ------------------------------------------------- the normaliser on its own
\* a key that the provider left out of an object
Absent == [kind |-> "absent"]
MakeObj(f) == Obj([k \in {j \in DOMAIN f : f[j] # Absent} |-> f[k]])

AppleVals == {Absent, Null, EmptyObj, Obj([url |-> Str("A")]), Obj([url |-> Null]),
              Str(""), Str("x")}
SpotifyVals == {Absent, Null, EmptyObj,
                Obj([external_urls |-> Null]),
                Obj([external_urls |-> EmptyObj]),
                Obj([external_urls |-> Obj([spotify |-> Str("S")])]),
                Obj([external_urls |-> List(1)])}
DeezerVals == {Absent, Null, EmptyObj, Obj([link |-> Str("D")])}

\* provider results: every consumed key present, null or left out
ProviderResults ==
  { MakeObj(f) : f \in [title : {Absent, Null, Str("T")},
                        artist : {Absent, Str("Ar")},
                        album : {Absent, Str("Al")},
                        release_date : {Absent, Null},
                        timecode : {Absent, Str("00:10")},
                        song_link : {Absent, Null, Str("L")},
                        apple_music : AppleVals,
                        spotify : SpotifyVals,
                        deezer : DeezerVals] } \ {EmptyObj}

InitNormalize ==
  /\ AUDD_API_TOKEN = Str("tok")
  /\ InitRequests
  /\ probe \in ProviderResults
  /\ probe_out = NotRun

\* normalize_audd_result applied to the probe, directly and as the handlers
\* apply it to a successful reply that carries the probe as its result
normalize ==
  /\ ~probe_out.ran
  /\ probe_out' =
       [normalized |-> normalize_audd_result(probe),
        by_url |-> identify_by_url_return(
                     JsonReply(Obj([status |-> Str("success"), result |-> probe]))).response,
        by_file |-> identify_by_file_return(
                     JsonReply(Obj([status |-> Str("success"), result |-> probe]))).response,
        ran |-> TRUE]
  /\ UNCHANGED <<AUDD_API_TOKEN, reqvars, probe>>

NextNormalize == normalize

SpecNormalize == InitNormalize /\ [][NextNormalize]_vars

\* ===================================================================== claims
\* The notions the claims speak of, stated on their own terms.
IsDone(r) == pc[r] = "done"

\* the credential is unset: absent or empty
CredentialUnset == AUDD_API_TOKEN \in {Null, Str("")}

\* the number of leading whitespace characters of u
LeadingBlanks(u) ==
  CHOOSE k \in 0..Len(u) :
    /\ \A i \in 1..k : u[i] \in {" ", "\t", "\n"}
    /\ k = Len(u) \/ u[k + 1] \notin {" ", "\t", "\n"}

\* u, once trimmed, starts with http:// or https://
TrimmedUrlIsHttp(u) ==
  \E p \in {<<"h", "t", "t", "p", ":", "/", "/">>,
            <<"h", "t", "t", "p", "s", ":", "/", "/">>} :
    /\ Len(u) >= LeadingBlanks(u) + Len(p)
    /\ \A i \in 1..Len(p) : u[LeadingBlanks(u) + i] = p[i]

MalformedUrlRequest(r) == IsDone(r) /\ op[r] = "url" /\ ~TrimmedUrlIsHttp(url[r])

\* C1 (as claimed): every identify-by-url request whose trimmed url does not
\* start with http:// or https:// fails with 422 and issues no outbound call.
C1_MalformedUrlAlways422 ==
  \A r \in Requests :
    MalformedUrlRequest(r) => response[r].status = 422 /\ outbound[r] = <<>>

\* C1 (amended): such a request never issues an outbound call; it fails with
\* 422 when the credential is set and with 400 when the credential is unset.
C1_MalformedUrlRejected ==
  \A r \in Requests :
    MalformedUrlRequest(r) =>
      /\ outbound[r] = <<>>
      /\ response[r].body = <<>>
      /\ response[r].status = IF CredentialUnset THEN 400 ELSE 422

C1_Witness ==
  \E r \in Requests :
    /\ MalformedUrlRequest(r)
    /\ url[r] # <<>>
    /\ ~CredentialUnset
    /\ response[r].status = 422

\* C2: with the credential unset (absent or empty) every identify request, by
\* url or by file, ends in 400 with the fixed message and no outbound call is
\* ever issued, whatever the url or the file.
C2_UnsetCredentialIs400 ==
  CredentialUnset =>
    \A r \in Requests :
      /\ outbound[r] = <<>>
      /\ pc[r] \in {"idle", "done"}
      /\ IsDone(r) =>
           /\ response[r].status = 400
           /\ response[r].detail = "AUDD_API_TOKEN env var is not set on the server"

C2_Witness ==
  /\ AUDD_API_TOKEN = Str("")
  /\ \E r, q \in Requests :
       /\ IsDone(r) /\ op[r] = "url" /\ TrimmedUrlIsHttp(url[r])
       /\ IsDone(q) /\ op[q] = "file"
       /\ response[r].status = 400 /\ response[q].status = 400

\* the parsed reply of r is an object whose status is missing or not "success"
NonSuccessReply(r) ==
  /\ reply[r].kind = "json"
  /\ reply[r].data.kind = "obj"
  /\ \/ "status" \notin DOMAIN reply[r].data.o
     \/ reply[r].data.o["status"] # Str("success")

\* C3: in both operations a parsed reply object whose status is missing or is
\* not "success" ends in 502 "Recognition service error", with or without a
\* result payload; the normaliser is not invoked and no 200 is produced.
C3_NonSuccessIs502 ==
  \A r \in Requests :
    (IsDone(r) /\ NonSuccessReply(r)) =>
      /\ response[r].status = 502
      /\ response[r].detail = "Recognition service error"
      /\ normalize_calls[r] = 0

C3_Witness ==
  \E r, q \in Requests :
    /\ IsDone(r) /\ op[r] = "url" /\ IsDone(q) /\ op[q] = "file"
    /\ reply[r].data = Obj([status |-> Str("error"), result |-> SongT])
    /\ reply[q].data = Obj([status |-> Str("error"), result |-> SongT])
    /\ response[r].status = 502 /\ response[q].status = 502

\* C4 (as claimed): a reply whose body cannot be parsed as JSON ends in 502
\* with the generic message, no underlying error text being echoed.
C4_UnparseableIsGeneric502 ==
  \A r \in Requests :
    (IsDone(r) /\ reply[r].kind = "json_raised") =>
      /\ response[r].status = 502
      /\ response[r].detail = "Recognition service error"

\* the reply of r reports success and carries no result, or an empty one
NoMatchReply(r) ==
  /\ reply[r].kind = "json"
  /\ reply[r].data.kind = "obj"
  /\ "status" \in DOMAIN reply[r].data.o
  /\ reply[r].data.o["status"] = Str("success")
  /\ \/ "result" \notin DOMAIN reply[r].data.o
     \/ reply[r].data.o["result"] \in {Null, EmptyObj}

\* C5: in both operations a success reply with an empty or absent result ends
\* in 200 with a body that holds found = false and nothing else, and a
\* response with found = false is produced in that case only.
C5_NoMatchIsFoundFalse ==
  \A r \in Requests :
    IsDone(r) =>
      /\ NoMatchReply(r) =>
           /\ response[r].status = 200
           /\ DOMAIN response[r].body = {"found"}
           /\ response[r].body.found = FALSE
      /\ (response[r].status = 200 /\ response[r].body.found = FALSE) =>
           NoMatchReply(r)

C5_Witness ==
  \E r, q \in Requests :
    /\ IsDone(r) /\ op[r] = "url" /\ IsDone(q) /\ op[q] = "file"
    /\ reply[r].data = Obj([status |-> Str("success"), result |-> EmptyObj])
    /\ reply[q].data = Obj([status |-> Str("success")])
    /\ response[r].body = [found |-> FALSE]
    /\ response[q].body = [found |-> FALSE]

\* C8 (as claimed): every response is 200, 400, 422 (url path only) or 502,
\* whatever the provider replies.
C8_OnlyDocumentedStatuses ==
  \A r \in Requests :
    IsDone(r) =>
      /\ response[r].status \in {200, 400, 422, 502}
      /\ response[r].status = 422 => op[r] = "url"

\* r has passed the credential check and, for a url, the url check
PassedValidation(r) ==
  /\ ~CredentialUnset
  /\ op[r] = "file" \/ (op[r] = "url" /\ TrimmedUrlIsHttp(url[r]))

RequestState(r) ==
  <<pc[r], op[r], url[r], outbound[r], reply[r], response[r], normalize_calls[r]>>

\* requests with the same operation, input and reply have the same response
SameInputsSameOutcome ==
  \A r, q \in Requests :
    (IsDone(r) /\ IsDone(q) /\ op[r] = op[q] /\ url[r] = url[q] /\ reply[r] = reply[q])
      => response[r] = response[q]

\* C10: under any interleaving no step writes the credential, a step touches
\* the state of one request only, and the outcome of a request is determined
\* by its own input, the credential and its own reply.
C10_RequestsIndependent ==
  [][ /\ AUDD_API_TOKEN' = AUDD_API_TOKEN
      /\ \A r, q \in Requests :
           (r # q /\ RequestState(r)' # RequestState(r))
             => RequestState(q)' = RequestState(q)
      /\ SameInputsSameOutcome' ]_vars

C10_Witness ==
  \E r, q \in Requests :
    /\ r # q /\ IsDone(r) /\ IsDone(q)
    /\ reply[r].kind = "post_raised" /\ response[r].status = 502
    /\ reply[q].kind = "json" /\ response[q].status = 200
    /\ response[q].body.found = TRUE

\* ------------------------------------------------ claims on the normaliser
\* v, a value met on a chain, is an object or is null
ObjectOrNull(v) == v.kind \in {"obj", "null"}

\* res is a provider result: a non-empty object whose service values, where
\* present, are objects or null, and likewise spotify's external_urls
WellFormedResult(res) ==
  /\ res.kind = "obj"
  /\ DOMAIN res.o # {}
  /\ \A k \in {"apple_music", "spotify", "deezer"} \cap DOMAIN res.o :
       ObjectOrNull(res.o[k])
  /\ ("spotify" \in DOMAIN res.o /\ res.o["spotify"].kind = "obj"
        /\ "external_urls" \in DOMAIN res.o["spotify"].o)
       => ObjectOrNull(res.o["spotify"].o["external_urls"])

\* C6: for every provider result the normaliser returns, with found = true,
\* and never raises, so that a success reply carrying the result ends in 200
\* with the normalised result, by url and by file.
C6_NormalizeTotal ==
  (probe_out.ran /\ WellFormedResult(probe)) =>
    /\ probe_out.normalized # Raised
    /\ probe_out.normalized.found = TRUE
    /\ probe_out.by_url = [status |-> 200, detail |-> "", body |-> probe_out.normalized]
    /\ probe_out.by_file = [status |-> 200, detail |-> "", body |-> probe_out.normalized]

C6_Witness ==
  /\ probe_out.ran
  /\ WellFormedResult(probe)
  /\ "apple_music" \in DOMAIN probe.o /\ probe.o["apple_music"] = Null
  /\ "spotify" \in DOMAIN probe.o /\ probe.o["spotify"] = Obj([external_urls |-> Null])
  /\ "deezer" \notin DOMAIN probe.o
  /\ "title" \notin DOMAIN probe.o
  /\ probe_out.by_url.status = 200
  /\ probe_out.normalized.found = TRUE

\* the value at the end of a chain of keys, Absent when a key of the chain is
\* missing or the value it is looked up in is not an object
RECURSIVE Follow(_, _)
Follow(v, path) ==
  IF path = <<>> THEN v
  ELSE IF v.kind = "obj" /\ Head(path) \in DOMAIN v.o
  THEN Follow(v.o[Head(path)], Tail(path))
  ELSE Absent

\* where each output field comes from
ScalarPath == [k \in ScalarKeys |-> <<k>>]
LinkPath == [apple_music |-> <<"apple_music", "url">>,
             spotify |-> <<"spotify", "external_urls", "spotify">>,
             deezer |-> <<"deezer", "link">>,
             audd |-> <<"song_link">>]

\* the output has the seven top-level keys and the four link keys
StableShape(out) ==
  /\ out # Raised
  /\ DOMAIN out = TopKeys
  /\ DOMAIN out.links = LinkKeys

\* C7 (as claimed): the output has all keys, each field is the value at the
\* end of its chain when the chain is present, and it is null exactly when a
\* key or an intermediate object of its chain is absent.
C7_NullExactlyWhenAbsent ==
  (probe_out.ran /\ WellFormedResult(probe)) =>
    LET out == probe_out.normalized IN
    /\ StableShape(out)
    /\ \A k \in ScalarKeys :
         /\ Follow(probe, ScalarPath[k]) # Absent => out[k] = Follow(probe, ScalarPath[k])
         /\ out[k] = Null <=> Follow(probe, ScalarPath[k]) = Absent
    /\ \A k \in LinkKeys :
         /\ Follow(probe, LinkPath[k]) # Absent => out.links[k] = Follow(probe, LinkPath[k])
         /\ out.links[k] = Null <=> Follow(probe, LinkPath[k]) = Absent

\* C7 (amended): the output has all keys, each field is the value at the end
\* of its chain when the chain is present, and it is null exactly when a key
\* or an intermediate object of its chain is absent or the value at the end
\* of the chain is itself null.
C7_LinksFollowChains ==
  (probe_out.ran /\ WellFormedResult(probe)) =>
    LET out == probe_out.normalized IN
    /\ StableShape(out)
    /\ \A k \in ScalarKeys :
         /\ Follow(probe, ScalarPath[k]) # Absent => out[k] = Follow(probe, ScalarPath[k])
         /\ out[k] = Null <=> Follow(probe, ScalarPath[k]) \in {Absent, Null}
    /\ \A k \in LinkKeys :
         /\ Follow(probe, LinkPath[k]) # Absent => out.links[k] = Follow(probe, LinkPath[k])
         /\ out.links[k] = Null <=> Follow(probe, LinkPath[k]) \in {Absent, Null}

C7_Witness ==
  /\ probe_out.ran
  /\ WellFormedResult(probe)
  /\ probe_out.normalized.links =
       [apple_music |-> Str("A"), spotify |-> Str("S"), deezer |-> Str("D"),
        audd |-> Str("L")]
  /\ "title" \in DOMAIN probe.o /\ probe.o["title"] = Null
  /\ "artist" \notin DOMAIN probe.o
  /\ probe_out.normalized.artist = Null

====
